---------------------------- MODULE Spec2Model ----------------------------
(***************************************************************************)
(* Model of server/bleep/src/periodic/remotes.rs: the Fleet Supervisor     *)
(* (check_repo_updates), the per-repository Monitor Loop                   *)
(* (periodic_repo_poll) with its Poller, and the credential engine         *)
(* (sync_github_status / update_credentials).                              *)
(***************************************************************************)
EXTENDS Integers, Sequences, FiniteSets, TLC

VARIABLES
    tracked,            \* the RepoRefs this deployment ever holds in its pool
    disable_fsevents,   \* app.config.disable_fsevents, fixed at startup
    pool,               \* app.repo_pool: RepoRef -> repository record
    github,             \* app.credentials.github(): the credential slot
    supPc,              \* position of check_repo_updates
    toVisit,            \* keys the running scan_async has not passed yet
    handles,            \* Fleet Task Table: RepoRef -> task slot (0: vacant)
    tasks,              \* spawned periodic_repo_poll tasks, per RepoRef and slot
    badAtStart,         \* history: records non-indexable since the scan began
    failedSync,         \* history: a sync failed, the record indexable since
    allow,              \* app.env.allow(Feature): the feature flags
    stored,             \* what the last credentials.store() persisted
    user,               \* the cached username (credentials.set_user)
    now,                \* the wall clock, seconds after UNIX_EPOCH
    credPc,             \* position of sync_github_status
    last_poll,          \* sync_github_status' last_poll
    cycle,              \* history: what the last update_credentials call did
    updates,            \* notifications waiting in the github_updated receiver
    wait_since,         \* when timeout_or_update's sleep(POLL_PERIOD) began
    cycle_at,           \* history: when the last processing cycle began (0: none)
    jPoller,            \* a Poller whose jittery_interval is called
    jResult             \* history: the last jitter sample and returned duration

config == <<tracked, disable_fsevents>>

\* the fleet's own state (the credential slot, github, is shared)
fleet == <<tracked, disable_fsevents, pool, supPc, toVisit, handles, tasks,
           badAtStart, failedSync>>

\* the credential engine's own state
engine == <<allow, stored, user, now, credPc, last_poll, cycle, updates,
            wait_since, cycle_at>>

\* the engine's wait for the next cycle
poll == <<updates, wait_since, cycle_at>>

jitter == <<jPoller, jResult>>

vars == <<tracked, disable_fsevents, pool, github, supPc, toVisit, handles, tasks,
          badAtStart, failedSync, allow, stored, user, now, credPc, last_poll, cycle,
          updates, wait_since, cycle_at, jPoller, jResult>>

---------------------------------------------------------------------------
(* Bounds of the model *)

\* task slots per RepoRef: how many spawned tasks of one key the model can hold
MaxTasks == 2
\* largest last_commit_unix_secs value drawn for a record
MaxCommit == 1
\* change signals the debouncer queues before the model stops adding more
MaxPending == 2
\* distinct token values drawn for each field of an OAuth bundle
MaxToken == 2
\* the clock's value at startup, seconds after UNIX_EPOCH
StartTime == 100000
\* clock ticks before the model stops the clock
MaxTicks == 1

\* minutes of clock in the specification of the engine's wait
MaxPollTicks == 4

\* notifications that may wait in the github_updated receiver
MaxUpdates == 2

---------------------------------------------------------------------------
(* Data *)

\* two tracked repositories, one per backend
Repos == {"local", "remote"}

backend(r) == IF r = "local" THEN "Local" ELSE "Github"

Slots == 1..MaxTasks

SyncStatus == {"Done", "Error", "Removed"}

\* SyncStatus::indexable (crate::repo)
indexable(s) == s \in {"Done", "Error"}

NoRecord == [present |-> FALSE, sync_status |-> "Removed", last_commit_unix_secs |-> 0]

Records == [present : {TRUE}, sync_status : SyncStatus,
            last_commit_unix_secs : 0..MaxCommit]

\* the credential slot: empty, an installation token with its expiry, or an
\* OAuth bundle (CognitoGithubTokenBundle)
NoCred == [auth |-> "None", access_token |-> 0, refresh_token |-> 0,
           github_access_token |-> 0, expiry |-> 0]

App(e) == [auth |-> "App", access_token |-> 0, refresh_token |-> 0,
           github_access_token |-> 0, expiry |-> e]

OAuth(a, r, g) == [auth |-> "OAuth", access_token |-> a, refresh_token |-> r,
                   github_access_token |-> g, expiry |-> 0]

Tokens == 1..MaxToken

NoUser == "none"

Users == {"alice"}

SomeCred == OAuth(1, 1, 1)

POLL_INTERVAL_MINUTE == <<60, 180, 600, 1200, 1800>>

\* capacity of the Poller's flume::bounded channel
ChannelCap == 10

Min(a, b) == IF a < b THEN a ELSE b

\* index of the schedule's last entry: POLL_INTERVAL_MINUTE.len() - 1
LastIndex == Len(POLL_INTERVAL_MINUTE) - 1

---------------------------------------------------------------------------
(* Poller *)

NoTask == [pc |-> "none", poll_interval_index |-> 0, minimum_interval_index |-> 0,
           debouncer |-> FALSE, git_events |-> 0, last_updated |-> 0,
           adj |-> "none", wake |-> "none", exit |-> "none"]

Spawned == [NoTask EXCEPT !.pc = "start"]

\* Poller::start; watch_ok is the outcome of watcher().watch(git_path)
\* a watched poller whose floor is left at the lowest index
Poller_start_floor_zero(r, watch_ok) ==
    IF ~disable_fsevents /\ backend(r) = "Local"
    THEN IF ~pool[r].present
         THEN [some |-> FALSE, poll_interval_index |-> 0,
               minimum_interval_index |-> 0, debouncer |-> FALSE,
               why |-> "start_no_record"]
         ELSE IF ~watch_ok
         THEN [some |-> FALSE, poll_interval_index |-> 0,
               minimum_interval_index |-> 0, debouncer |-> FALSE,
               why |-> "watch_failed"]
         ELSE [some |-> TRUE,
               poll_interval_index |-> LastIndex,
               minimum_interval_index |-> 0,
               debouncer |-> TRUE, why |-> "none"]
    ELSE [some |-> TRUE, poll_interval_index |-> 0,
          minimum_interval_index |-> 0, debouncer |-> FALSE, why |-> "none"]

Poller_start(r, watch_ok) ==
    IF ~disable_fsevents /\ backend(r) = "Local"
    THEN IF ~pool[r].present
         THEN [some |-> FALSE, poll_interval_index |-> 0,
               minimum_interval_index |-> 0, debouncer |-> FALSE,
               why |-> "start_no_record"]
         ELSE IF ~watch_ok
         THEN [some |-> FALSE, poll_interval_index |-> 0,
               minimum_interval_index |-> 0, debouncer |-> FALSE,
               why |-> "watch_failed"]
         ELSE [some |-> TRUE,
               poll_interval_index |-> LastIndex,
               minimum_interval_index |-> LastIndex,
               debouncer |-> TRUE, why |-> "none"]
    ELSE [some |-> TRUE, poll_interval_index |-> 0,
          minimum_interval_index |-> 0, debouncer |-> FALSE, why |-> "none"]

increase_interval_unclamped(idx) == idx + 1

\* Poller::increase_interval: the new poll_interval_index
increase_interval(idx) == Min(idx + 1, LastIndex)

reset_interval_zero(t) == 0

\* Poller::reset_interval: the new poll_interval_index
reset_interval(t) == t.minimum_interval_index

\* Poller::interval, in seconds
interval(idx) == POLL_INTERVAL_MINUTE[idx + 1]

\* without the debouncer test recv_async returns at once on the closed channel
git_change_no_debouncer_test(t) == ~t.debouncer \/ t.git_events > 0

\* Poller::git_change resolves: a watch exists and recv_async has a signal
git_change(t) == t.debouncer /\ t.git_events > 0

\* check_repo: what repo_pool.read returns (present = Some)
check_repo(r) == pool[r]


---------------------------------------------------------------------------
(* Jittered interval *)

\* rand::distributions::Uniform::new(low, high): the half-open range
Uniform(low, high) == low..(high - 1)

Uniform_inclusive(low, high) == low..high

jitter_range_inclusive(idx) == Uniform_inclusive(10, 30 + interval(idx) \div 2)

\* the jitter values Poller::jittery_interval can draw at a backoff level
jitter_range(idx) == Uniform(10, 30 + interval(idx) \div 2)

\* Poller::jittery_interval, for the drawn jitter
jittery_interval(idx, drawn) == interval(idx) + drawn

NoSample == [called |-> FALSE, jitter |-> 0, duration |-> 0]

JitterIdle ==
    /\ jPoller = [poll_interval_index |-> 0, minimum_interval_index |-> 0]
    /\ jResult = NoSample

\* a Poller as Poller::start leaves it, or after any increase/reset calls
JitterInit ==
    /\ jPoller \in {p \in [poll_interval_index : 0..LastIndex,
                           minimum_interval_index : {0, LastIndex}] :
                      p.minimum_interval_index <= p.poll_interval_index}
    /\ jResult = NoSample

\* one call of jittery_interval, with the sample thread_rng() draws
JitteryInterval(drawn) ==
    /\ jResult' = [called |-> TRUE, jitter |-> drawn,
                   duration |-> jittery_interval(jPoller.poll_interval_index, drawn)]
    /\ UNCHANGED <<jPoller, fleet, github, engine>>

JIncreaseInterval ==
    /\ jPoller' = [jPoller EXCEPT !.poll_interval_index = increase_interval(@)]
    /\ jResult' = NoSample
    /\ UNCHANGED <<fleet, github, engine>>

JResetInterval ==
    /\ jPoller' = [jPoller EXCEPT !.poll_interval_index = reset_interval(jPoller)]
    /\ jResult' = NoSample
    /\ UNCHANGED <<fleet, github, engine>>

---------------------------------------------------------------------------
(* Credential engine: update_credentials *)

NoCycle == [ran |-> FALSE, installation_requested |-> FALSE,
            held |-> [some |-> FALSE, at |-> 0], installation |-> "none",
            verify |-> "none",
            exp |-> 0, at |-> 0, rotation_attempted |-> FALSE,
            refresh |-> "none",
            bundle_written |-> FALSE, only_access_token |-> TRUE,
            validated |-> "none",
            removes |-> 0, stores |-> 0]

\* offsets from the current time of the expiry claims the verifier returns
ExpOffsets == {599, 600, 601}

\* offsets from the current time of the expiry of a fresh installation token
InstallationOffsets == {600, 3600}

\* what the verifier returns: claims with or without "exp", a non-object, an error
VerifyOutcomes(t) ==
    {[verify |-> "object_exp", exp |-> t + d] : d \in ExpOffsets}
    \cup {[verify |-> v, exp |-> 0] : v \in {"object_no_exp", "other", "err"}}

\* what the refresh endpoint and github.validate() return: a failed request, an
\* unreadable body, an undecodable body, or a new access token and a validation
RefreshOutcomes ==
    {[get_ok |-> FALSE, body_ok |-> TRUE, json_ok |-> TRUE, access_token |-> 1,
      validate |-> "user"],
     [get_ok |-> TRUE, body_ok |-> FALSE, json_ok |-> TRUE, access_token |-> 1,
      validate |-> "user"],
     [get_ok |-> TRUE, body_ok |-> TRUE, json_ok |-> FALSE, access_token |-> 1,
      validate |-> "user"]}
    \cup [get_ok : {TRUE}, body_ok : {TRUE}, json_ok : {TRUE},
          access_token : Tokens, validate : {"user", "no_user", "err"}]

\* what refresh_github_installation_token returns
InstallationOutcomes(t) ==
    {[installation_ok |-> FALSE, installation_expiry |-> 0]}
    \cup {[installation_ok |-> TRUE, installation_expiry |-> t + d] :
            d \in InstallationOffsets}

OneOf(S) == {CHOOSE x \in S : TRUE}

\* what one update_credentials call gets from its collaborators; a policy
\* whose feature flag is off asks for nothing
Inputs(t) ==
    {[installation_ok |-> i.installation_ok,
      installation_expiry |-> i.installation_expiry,
      verify |-> v.verify, exp |-> v.exp,
      get_ok |-> f.get_ok, body_ok |-> f.body_ok, json_ok |-> f.json_ok,
      access_token |-> f.access_token, validate |-> f.validate,
      username |-> u] :
        i \in IF allow.GithubOrgInstallation THEN InstallationOutcomes(t)
              ELSE OneOf(InstallationOutcomes(t)),
        v \in IF allow.CognitoUserAuth THEN VerifyOutcomes(t)
              ELSE OneOf(VerifyOutcomes(t)),
        f \in IF allow.CognitoUserAuth THEN RefreshOutcomes
              ELSE OneOf(RefreshOutcomes),
        u \in Users}

\* credentials.store()
store(st) == [st EXCEPT !.stored = [github |-> st.github, user |-> st.user],
                        !.cyc.stores = @ + 1]

\* if credentials.remove(&Backend::Github).is_some() { credentials.store() }
remove_and_store(st) ==
    IF st.github # NoCred
    THEN store([st EXCEPT !.github = NoCred, !.cyc.removes = @ + 1])
    ELSE st

\* State::expiry of the held credential
expiry(c) == IF c.auth = "App" THEN [some |-> TRUE, at |-> c.expiry]
                               ELSE [some |-> FALSE, at |-> 0]

\* remotes::github::refresh_github_installation_token
refresh_github_installation_token(st, in) ==
    IF in.installation_ok
    THEN [st EXCEPT !.github = App(in.installation_expiry)]
    ELSE st

\* the installation-token policy
installation_policy(st, in, t) ==
    LET st1 == [st EXCEPT !.cyc.held = expiry(st.github), !.cyc.at = t]
    IN  IF expiry(st.github).some /\ expiry(st.github).at > t + 10 * 60
        THEN st1
        ELSE refresh_github_installation_token(
                 [st1 EXCEPT !.cyc.installation_requested = TRUE,
                             !.cyc.installation = IF in.installation_ok
                                                  THEN "ok" ELSE "err"], in)

rotate_access_key_sign_slip(exp, t) == exp + 600 < t

\* expiry_time - Duration::from_secs(600) < SystemTime::now()
rotate_access_key(exp, t) == exp - 600 < t

\* a validation whose error leaves the credentials in place
validate_identity_keep_on_error(st, in) ==
    LET seen == IF st.github # NoCred THEN in.validate ELSE "none"
        st1 == [st EXCEPT !.cyc.validated = seen]
    IN  IF seen = "user"
        THEN store([st1 EXCEPT !.user = in.username])
        ELSE st1

\* the validation that ends the OAuth policy
validate_identity(st, in) ==
    LET seen == IF st.github # NoCred THEN in.validate ELSE "none"
        st1 == [st EXCEPT !.cyc.validated = seen]
        st2 == IF seen = "user"
               THEN store([st1 EXCEPT !.user = in.username])
               ELSE st1
        github_expired == seen \in {"err", "none"}
    IN  IF github_expired THEN remove_and_store(st2) ELSE st2

\* history: bundle w differs from bundle c in the access token at most
same_but_access_token(w, c) ==
    /\ w.auth = c.auth
    /\ w.refresh_token = c.refresh_token
    /\ w.github_access_token = c.github_access_token
    /\ w.expiry = c.expiry

\* a bundle whose refresh token is replaced along with the access token
rotated_bundle_new_refresh_token(creds, in) ==
    OAuth(in.access_token, in.access_token, creds.github_access_token)

\* the CognitoGithubTokenBundle that set_github receives after a rotation
rotated_bundle(creds, in) ==
    OAuth(in.access_token, creds.refresh_token, creds.github_access_token)

\* an undecodable or unreadable body handled like a failed request
rotate_decode_error_transient(st, in) ==
    LET creds == st.github
        st1 == [st EXCEPT !.cyc.rotation_attempted = TRUE]
    IN  IF ~in.get_ok THEN [st1 EXCEPT !.cyc.refresh = "get_err"]
        ELSE IF ~(in.body_ok /\ in.json_ok)
        THEN [st1 EXCEPT !.cyc.refresh = IF in.body_ok THEN "json_err"
                                         ELSE "body_err"]
        ELSE validate_identity(
                 store([st1 EXCEPT
                          !.github = rotated_bundle(creds, in),
                          !.cyc.refresh = "ok",
                          !.cyc.bundle_written = TRUE,
                          !.cyc.only_access_token =
                              same_but_access_token(rotated_bundle(creds, in),
                                                    creds)]), in)

\* a failed refresh request handled like an undecodable response
rotate_request_error_forces_login(st, in) ==
    LET creds == st.github
        st1 == [st EXCEPT !.cyc.rotation_attempted = TRUE]
    IN  IF ~(in.get_ok /\ in.body_ok /\ in.json_ok)
        THEN remove_and_store(
                 [st1 EXCEPT !.cyc.refresh = IF ~in.get_ok THEN "get_err"
                                             ELSE IF in.body_ok THEN "json_err"
                                             ELSE "body_err"])
        ELSE validate_identity(
                 store([st1 EXCEPT
                          !.github = rotated_bundle(creds, in),
                          !.cyc.refresh = "ok",
                          !.cyc.bundle_written = TRUE,
                          !.cyc.only_access_token =
                              same_but_access_token(rotated_bundle(creds, in),
                                                    creds)]), in)

\* the rotation: the refresh-endpoint request and what follows it
rotate(st, in) ==
    LET creds == st.github
        st1 == [st EXCEPT !.cyc.rotation_attempted = TRUE]
    IN  IF ~in.get_ok THEN [st1 EXCEPT !.cyc.refresh = "get_err"]
        ELSE IF ~(in.body_ok /\ in.json_ok)
        THEN remove_and_store(
                 [st1 EXCEPT !.cyc.refresh = IF in.body_ok THEN "json_err"
                                             ELSE "body_err"])
        ELSE validate_identity(
                 store([st1 EXCEPT
                          !.github = rotated_bundle(creds, in),
                          !.cyc.refresh = "ok",
                          !.cyc.bundle_written = TRUE,
                          !.cyc.only_access_token =
                              same_but_access_token(rotated_bundle(creds, in),
                                                    creds)]), in)

\* a verifier error taken as "nothing to rotate"
oauth_policy_trust_on_error(st, in, t) ==
    IF st.github.auth # "OAuth" THEN st
    ELSE LET st1 == [st EXCEPT !.cyc.verify = in.verify,
                               !.cyc.exp = IF in.verify = "object_exp"
                                           THEN in.exp ELSE 0,
                               !.cyc.at = t]
         IN  IF in.verify = "object_no_exp" THEN st1
             ELSE IF in.verify = "err"
                     \/ (in.verify = "object_exp" /\ ~rotate_access_key(in.exp, t))
                  THEN validate_identity(st1, in)
                  ELSE rotate(st1, in)

\* no validation in a cycle that has nothing to rotate
oauth_policy_validate_after_rotation_only(st, in, t) ==
    IF st.github.auth # "OAuth" THEN st
    ELSE LET st1 == [st EXCEPT !.cyc.verify = in.verify,
                               !.cyc.exp = IF in.verify = "object_exp"
                                           THEN in.exp ELSE 0,
                               !.cyc.at = t]
         IN  IF in.verify = "object_no_exp" THEN st1
             ELSE IF in.verify = "object_exp" /\ ~rotate_access_key(in.exp, t)
                  THEN st1
                  ELSE rotate(st1, in)

\* claims without "exp" taken as an expired token
oauth_policy_no_exp_rotates(st, in, t) ==
    IF st.github.auth # "OAuth" THEN st
    ELSE LET st1 == [st EXCEPT !.cyc.verify = in.verify,
                               !.cyc.exp = IF in.verify = "object_exp"
                                           THEN in.exp ELSE 0,
                               !.cyc.at = t]
         IN  IF in.verify = "object_exp" /\ ~rotate_access_key(in.exp, t)
             THEN validate_identity(st1, in)
             ELSE rotate(st1, in)

\* the OAuth policy
oauth_policy(st, in, t) ==
    IF st.github.auth # "OAuth" THEN st
    ELSE LET st1 == [st EXCEPT !.cyc.verify = in.verify,
                               !.cyc.exp = IF in.verify = "object_exp"
                                           THEN in.exp ELSE 0,
                               !.cyc.at = t]
         IN  IF in.verify = "object_no_exp" THEN st1
             ELSE IF in.verify = "object_exp" /\ ~rotate_access_key(in.exp, t)
                  THEN validate_identity(st1, in)
                  ELSE rotate(st1, in)

\* both policies run whatever the feature flags say
update_credentials_ungated(st, in, t) ==
    oauth_policy(installation_policy(
                     [st EXCEPT !.cyc = [NoCycle EXCEPT !.ran = TRUE]], in, t),
                 in, t)

\* update_credentials: both policies, each behind its feature flag
update_credentials(st, in, t) ==
    LET st0 == [st EXCEPT !.cyc = [NoCycle EXCEPT !.ran = TRUE]]
        st1 == IF allow.GithubOrgInstallation
               THEN installation_policy(st0, in, t) ELSE st0
    IN  IF allow.CognitoUserAuth THEN oauth_policy(st1, in, t) ELSE st1

Held == [github |-> github, stored |-> stored, user |-> user, cyc |-> cycle]

Commit(st) ==
    /\ github' = st.github
    /\ stored' = st.stored
    /\ user' = st.user
    /\ cycle' = st.cyc

---------------------------------------------------------------------------
(* Credential engine: sync_github_status *)

EngineIdle ==
    /\ allow = [GithubOrgInstallation |-> FALSE, CognitoUserAuth |-> FALSE]
    /\ stored = [github |-> NoCred, user |-> NoUser]
    /\ user = NoUser
    /\ now = StartTime
    /\ credPc = "startup"
    /\ last_poll = 0
    /\ cycle = NoCycle
    /\ updates = 0
    /\ wait_since = 0
    /\ cycle_at = 0

\* the credentials the process starts with are the persisted ones
EngineInit ==
    /\ allow \in [GithubOrgInstallation : BOOLEAN, CognitoUserAuth : BOOLEAN]
    /\ github \in {NoCred, SomeCred}
    /\ user = NoUser
    /\ stored = [github |-> github, user |-> user]
    /\ now = StartTime
    /\ credPc = "startup"
    /\ last_poll = 0
    /\ cycle = NoCycle
    /\ updates = 0
    /\ wait_since = 0
    /\ cycle_at = 0

\* update_credentials(&app) before the loop; last_poll = UNIX_EPOCH
EngineStartup(in) ==
    /\ credPc = "startup"
    /\ Commit(update_credentials(Held, in, now))
    /\ credPc' = "top"
    /\ last_poll' = 0
    /\ UNCHANGED <<allow, now, fleet, jitter, poll>>

\* one pass of the loop body that holds credentials: the repository list, then
\* set_github and update_credentials; a failed list only waits LIVENESS
EngineCycle(list_ok, in) ==
    /\ credPc = "top"
    /\ github # NoCred
    /\ IF list_ok
       THEN /\ Commit(update_credentials(Held, in, now))
            /\ credPc' = "wait"
            /\ wait_since' = now
            /\ cycle_at' = now
       ELSE UNCHANGED <<github, stored, user, cycle, credPc, wait_since, cycle_at>>
    /\ UNCHANGED <<allow, now, last_poll, updates, fleet, jitter>>

\* const POLL_PERIOD: Duration = POLL_INTERVAL_MINUTE[1]
POLL_PERIOD == POLL_INTERVAL_MINUTE[2]

\* the loop body without credentials: timeout() (LIVENESS), then continue
EngineNoCreds ==
    /\ credPc = "top"
    /\ github = NoCred
    /\ UNCHANGED vars

\* timeout_or_update returns
EngineWake ==
    /\ credPc = "wait"
    /\ credPc' = "top"
    /\ last_poll' = now
    /\ UNCHANGED <<allow, github, stored, user, now, cycle, fleet, jitter, poll>>

\* timeout_or_update: the sleep(POLL_PERIOD) branch of the select
TimeoutExpired ==
    /\ credPc = "wait"
    /\ now >= wait_since + POLL_PERIOD
    /\ credPc' = "top"
    /\ last_poll' = now
    /\ UNCHANGED <<allow, github, stored, user, now, cycle, fleet, jitter, poll>>

\* now.duration_since(last_poll).unwrap() > POLL_PERIOD
guard(t, lp) == t - lp > POLL_PERIOD

\* timeout_or_update: the recv_async branch of the select; a notification
\* that fails the guard is dropped and the select, with a new sleep, repeated
UpdateReceived ==
    /\ credPc = "wait"
    /\ updates > 0
    /\ updates' = updates - 1
    /\ IF guard(now, last_poll)
       THEN /\ credPc' = "top"
            /\ last_poll' = now
            /\ UNCHANGED wait_since
       ELSE /\ wait_since' = now
            /\ UNCHANGED <<credPc, last_poll>>
    /\ UNCHANGED <<allow, github, stored, user, now, cycle, cycle_at, fleet, jitter>>

\* a writer of the slot notifies the github_updated receiver
CredentialsChanged ==
    /\ updates < MaxUpdates
    /\ updates' = updates + 1
    /\ UNCHANGED <<allow, github, stored, user, now, credPc, last_poll, cycle,
                   wait_since, cycle_at, fleet, jitter>>

\* another writer of the slot: a login stores an OAuth bundle
Login(a, r, g) ==
    /\ github' = OAuth(a, r, g)
    /\ github' # github
    /\ stored' = [github |-> github', user |-> user]
    /\ UNCHANGED <<allow, user, now, credPc, last_poll, cycle, fleet, jitter, poll>>

\* a minute passes, up to max minutes after the start
Advance(max) ==
    /\ now < StartTime + max * 60
    /\ now' = now + 60
    /\ UNCHANGED <<allow, github, stored, user, credPc, last_poll, cycle,
                   fleet, jitter, poll>>

Tick == Advance(MaxTicks)

PollTick == Advance(MaxPollTicks)

---------------------------------------------------------------------------
(* Initial state *)

FleetInit(universe) ==
    /\ tracked \in universe
    /\ disable_fsevents \in BOOLEAN
    /\ pool \in [Repos -> Records \cup {NoRecord}]
    /\ \A r \in Repos \ tracked : pool[r] = NoRecord
    /\ github = NoCred
    /\ supPc = "gate"
    /\ toVisit = {}
    /\ handles = [r \in Repos |-> 0]
    /\ tasks = [r \in Repos |-> [k \in Slots |-> NoTask]]
    /\ badAtStart = {}
    /\ failedSync = {}

FleetIdle ==
    /\ tracked = {}
    /\ disable_fsevents = FALSE
    /\ pool = [r \in Repos |-> NoRecord]
    /\ supPc = "gate"
    /\ toVisit = {}
    /\ handles = [r \in Repos |-> 0]
    /\ tasks = [r \in Repos |-> [k \in Slots |-> NoTask]]
    /\ badAtStart = {}
    /\ failedSync = {}

\* one tracked repository, of either backend
Init == FleetInit({{r} : r \in Repos}) /\ EngineIdle /\ JitterIdle

---------------------------------------------------------------------------
(* Environment: the indexer and other writers of the pool, the watcher,    *)
(* and writers of the credential slot                                      *)

\* history bookkeeping: r stops counting as "non-indexable since the scan began"
\* and, once its record is absent or non-indexable, as "failed and unchanged"
Touch(r) ==
    /\ badAtStart' = badAtStart \ {r}
    /\ failedSync' = IF pool'[r].present /\ indexable(pool'[r].sync_status)
                     THEN failedSync
                     ELSE failedSync \ {r}

SetStatus(r, s) ==
    /\ pool[r].present
    /\ pool[r].sync_status # s
    /\ pool' = [pool EXCEPT ![r].sync_status = s]
    /\ Touch(r)
    /\ UNCHANGED <<engine, jitter, config, github, supPc, toVisit, handles, tasks>>

SetCommit(r, c) ==
    /\ pool[r].present
    /\ pool[r].last_commit_unix_secs # c
    /\ pool' = [pool EXCEPT ![r].last_commit_unix_secs = c]
    /\ UNCHANGED <<engine, jitter, config, github, supPc, toVisit, handles, tasks,
                   badAtStart, failedSync>>

InsertRecord(r, rec) ==
    /\ r \in tracked
    /\ ~pool[r].present
    /\ pool' = [pool EXCEPT ![r] = rec]
    /\ Touch(r)
    /\ UNCHANGED <<engine, jitter, config, github, supPc, toVisit, handles, tasks>>

RemoveRecord(r) ==
    /\ pool[r].present
    /\ pool' = [pool EXCEPT ![r] = NoRecord]
    /\ Touch(r)
    /\ UNCHANGED <<engine, jitter, config, github, supPc, toVisit, handles, tasks>>

\* debounced_events' callback: tx.send(()) on a non-empty batch of events
FsEvent(r, k) ==
    /\ tasks[r][k].debouncer
    /\ tasks[r][k].pc \notin {"none", "done"}
    /\ tasks[r][k].git_events < Min(ChannelCap, MaxPending)
    /\ tasks' = [tasks EXCEPT ![r][k].git_events = @ + 1]
    /\ UNCHANGED <<engine, jitter, config, pool, github, supPc, toVisit, handles,
                   badAtStart, failedSync>>

CredSet ==
    /\ github = NoCred
    /\ github' = SomeCred
    /\ UNCHANGED <<engine, jitter, config, pool, supPc, toVisit, handles, tasks,
                   badAtStart, failedSync>>

CredRemove ==
    /\ github # NoCred
    /\ github' = NoCred
    /\ UNCHANGED <<engine, jitter, config, pool, supPc, toVisit, handles, tasks,
                   badAtStart, failedSync>>

---------------------------------------------------------------------------
(* Fleet Supervisor: check_repo_updates *)

Live(r, k) == tasks[r][k].pc \notin {"none", "done"}

LiveLoops(r) == {k \in Slots : Live(r, k)}

FreeSlots(r) == {k \in Slots : tasks[r][k].pc = "none"}

\* tokio::spawn(periodic_repo_poll(..)) and insert_entry
spawn(r) ==
    LET k == CHOOSE k \in FreeSlots(r) : \A j \in FreeSlots(r) : k <= j
    IN  /\ handles' = [handles EXCEPT ![r] = k]
        /\ tasks' = [tasks EXCEPT ![r][k] = Spawned]

\* value.remove_entry(): the JoinHandle is dropped, which frees a finished
\* task and detaches (does not stop) one that is still running
remove_entry(r) ==
    /\ handles' = [handles EXCEPT ![r] = 0]
    /\ tasks' = [tasks EXCEPT ![r][handles[r]] =
                    IF @.pc = "done" THEN NoTask ELSE @]

is_finished_always(r, k) == TRUE

\* JoinHandle::is_finished
is_finished(r, k) == tasks[r][k].pc = "done"

\* an insert without the Occupied/Vacant test
scan_visit_no_dedup(r) ==
    IF indexable(pool[r].sync_status) /\ FreeSlots(r) # {}
    THEN spawn(r)
    ELSE UNCHANGED <<handles, tasks>>

\* a spawn without the indexable test
scan_visit_spawn_any(r) ==
    IF handles[r] # 0
    THEN IF is_finished(r, handles[r])
         THEN remove_entry(r)
         ELSE UNCHANGED <<handles, tasks>>
    ELSE IF FreeSlots(r) # {}
         THEN spawn(r)
         ELSE UNCHANGED <<handles, tasks>>

\* a finished entry replaced by a new loop in the visit that finds it
scan_visit_respawn_at_once(r) ==
    IF handles[r] # 0 /\ ~is_finished(r, handles[r])
    THEN UNCHANGED <<handles, tasks>>
    ELSE IF indexable(pool[r].sync_status)
            /\ (FreeSlots(r) # {} \/ handles[r] # 0)
         THEN LET k == IF handles[r] # 0 THEN handles[r]
                       ELSE CHOOSE k \in FreeSlots(r) :
                                \A j \in FreeSlots(r) : k <= j
              IN  /\ handles' = [handles EXCEPT ![r] = k]
                  /\ tasks' = [tasks EXCEPT ![r][k] = Spawned]
         ELSE IF handles[r] # 0
         THEN remove_entry(r)
         ELSE UNCHANGED <<handles, tasks>>

\* an Occupied entry left alone whether or not its loop has finished
scan_visit_keep_finished(r) ==
    IF handles[r] # 0
    THEN UNCHANGED <<handles, tasks>>
    ELSE IF indexable(pool[r].sync_status) /\ FreeSlots(r) # {}
         THEN spawn(r)
         ELSE UNCHANGED <<handles, tasks>>

\* the closure scan_async runs on one entry of the pool
scan_visit(r) ==
    IF handles[r] # 0
    THEN IF is_finished(r, handles[r])
         THEN remove_entry(r)
         ELSE UNCHANGED <<handles, tasks>>
    ELSE IF indexable(pool[r].sync_status) /\ FreeSlots(r) # {}
         THEN spawn(r)
         ELSE UNCHANGED <<handles, tasks>>

\* the startup wait left whether or not a credential is held
gate_open_without_credentials == TRUE

\* the condition on which the startup wait ends
gate_open == github # NoCred

\* while credentials.github().is_none() { sleep }
GatePass ==
    /\ supPc = "gate"
    /\ gate_open
    /\ supPc' = "idle"
    /\ UNCHANGED <<engine, jitter, config, pool, github, toVisit, handles, tasks,
                   badAtStart, failedSync>>

ScanStart ==
    /\ supPc = "idle"
    /\ supPc' = "scan"
    /\ toVisit' = Repos
    /\ badAtStart' = {r \in Repos : pool[r].present
                                    /\ ~indexable(pool[r].sync_status)}
    /\ UNCHANGED <<engine, jitter, config, pool, github, handles, tasks,
                   failedSync>>

ScanVisit(r) ==
    /\ supPc = "scan"
    /\ r \in toVisit
    /\ toVisit' = toVisit \ {r}
    /\ IF pool[r].present
       THEN scan_visit(r)
       ELSE UNCHANGED <<handles, tasks>>
    /\ UNCHANGED <<engine, jitter, config, pool, github, supPc, badAtStart,
                   failedSync>>

\* the scan is over; sleep(5 s)
ScanEnd ==
    /\ supPc = "scan"
    /\ toVisit = {}
    /\ supPc' = "idle"
    /\ badAtStart' = {}
    /\ UNCHANGED <<engine, jitter, config, pool, github, toVisit, handles, tasks,
                   failedSync>>

---------------------------------------------------------------------------
(* Monitor Loop: periodic_repo_poll *)

Exit(t, why) == [t EXCEPT !.pc = "done", !.exit = why, !.debouncer = FALSE,
                          !.git_events = 0, !.last_updated = 0,
                          !.adj = "none", !.wake = "none"]

\* a loop's exit that ends the loops of the other repositories with it
StepTask_exit_stops_all(r, k, t) ==
    /\ tasks' = [q \in Repos |->
                    IF q = r THEN [tasks[q] EXCEPT ![k] = t]
                    ELSE IF t.pc = "done"
                    THEN [j \in Slots |->
                            IF tasks[q][j].pc \in {"none", "done"}
                            THEN tasks[q][j]
                            ELSE Exit(tasks[q][j], t.exit)]
                    ELSE tasks[q]]
    /\ failedSync' = IF t.pc = "done" /\ t.exit = "sync_error"
                     THEN failedSync \cup {r}
                     ELSE failedSync
    /\ UNCHANGED <<engine, jitter, config, pool, github, supPc, toVisit, handles,
                   badAtStart>>

\* one step of the task in slot k of r: it writes its own locals only
StepTask(r, k, t) ==
    /\ tasks' = [tasks EXCEPT ![r][k] = t]
    /\ failedSync' = IF t.pc = "done" /\ t.exit = "sync_error"
                     THEN failedSync \cup {r}
                     ELSE failedSync
    /\ UNCHANGED <<engine, jitter, config, pool, github, supPc, toVisit, handles,
                   badAtStart>>

\* let mut poller = Poller::start(&app, &reporef)?;
PollStart(r, k, watch_ok) ==
    /\ tasks[r][k].pc = "start"
    /\ LET p == Poller_start(r, watch_ok)
           t == tasks[r][k]
       IN  StepTask(r, k,
             IF p.some
             THEN [t EXCEPT !.pc = "check1",
                            !.poll_interval_index = p.poll_interval_index,
                            !.minimum_interval_index = p.minimum_interval_index,
                            !.debouncer = p.debouncer]
             ELSE Exit(t, p.why))

\* step 1 with a status test that lets only Done through
first_check_done_only(r, t) ==
    LET rec == check_repo(r)
    IN  IF ~rec.present THEN Exit(t, "no_record")
        ELSE IF rec.sync_status # "Done" THEN Exit(t, "not_indexable")
        ELSE [t EXCEPT !.pc = "syncing",
                       !.last_updated = rec.last_commit_unix_secs,
                       !.wake = "none"]

\* step 1: check_repo, the indexable test, and the call of block_until_synced
first_check(r, t) ==
    LET rec == check_repo(r)
    IN  IF ~rec.present THEN Exit(t, "no_record")
        ELSE IF ~indexable(rec.sync_status) THEN Exit(t, "not_indexable")
        ELSE [t EXCEPT !.pc = "syncing",
                       !.last_updated = rec.last_commit_unix_secs,
                       !.wake = "none"]

FirstCheck(r, k) ==
    /\ tasks[r][k].pc = "check1"
    /\ StepTask(r, k, first_check(r, tasks[r][k]))

\* block_until_synced returns
sync_returned(t, ok) ==
    IF ok THEN [t EXCEPT !.pc = "check2"] ELSE Exit(t, "sync_error")

SyncReturns(r, k, ok) ==
    /\ tasks[r][k].pc = "syncing"
    /\ StepTask(r, k, sync_returned(tasks[r][k], ok))

\* the comparison without its status == Done conjunct
adjust_ignoring_status(t, rec) ==
    IF t.last_updated = rec.last_commit_unix_secs
    THEN [t EXCEPT !.poll_interval_index = increase_interval(t.poll_interval_index),
                   !.adj = "increase"]
    ELSE [t EXCEPT !.poll_interval_index = reset_interval(t), !.adj = "reset"]

\* step 4: the comparison and the backoff adjustment
adjust(t, rec) ==
    IF t.last_updated = rec.last_commit_unix_secs /\ rec.sync_status = "Done"
    THEN [t EXCEPT !.poll_interval_index = increase_interval(t.poll_interval_index),
                   !.adj = "increase"]
    ELSE [t EXCEPT !.poll_interval_index = reset_interval(t), !.adj = "reset"]

second_check_no_exit(r, t) ==
    LET rec == check_repo(r)
    IN  IF ~rec.present THEN Exit(t, "no_record")
        ELSE [adjust(t, rec) EXCEPT !.pc = "waiting", !.last_updated = 0]

\* steps 3 and 4: check_repo after the sync, the indexable test, the adjustment
second_check(r, t) ==
    LET rec == check_repo(r)
    IN  IF ~rec.present THEN Exit(t, "no_record")
        ELSE IF ~indexable(rec.sync_status) THEN Exit(t, "not_indexable")
        ELSE [adjust(t, rec) EXCEPT !.pc = "waiting", !.last_updated = 0]

SecondCheck(r, k) ==
    /\ tasks[r][k].pc = "check2"
    /\ StepTask(r, k, second_check(r, tasks[r][k]))

\* step 5, the timeout branch of the select
TimerFires(r, k) ==
    /\ tasks[r][k].pc = "waiting"
    /\ StepTask(r, k, [tasks[r][k] EXCEPT !.pc = "check1", !.adj = "none",
                                          !.wake = "timer"])

\* a git_change that takes one signal and leaves the rest queued
GitChange_without_drain(r, k) ==
    /\ tasks[r][k].pc = "waiting"
    /\ git_change(tasks[r][k])
    /\ StepTask(r, k, [tasks[r][k] EXCEPT !.pc = "check1", !.adj = "none",
                                          !.wake = "change",
                                          !.git_events = @ - 1])

\* step 5, the git_change branch: recv_async, then drain
GitChange(r, k) ==
    /\ tasks[r][k].pc = "waiting"
    /\ git_change(tasks[r][k])
    /\ StepTask(r, k, [tasks[r][k] EXCEPT !.pc = "check1", !.adj = "none",
                                          !.wake = "change", !.git_events = 0])

---------------------------------------------------------------------------
(* Specification of the fleet *)

Next ==
    \/ \E r \in Repos, s \in SyncStatus : SetStatus(r, s)
    \/ \E r \in Repos, c \in 0..MaxCommit : SetCommit(r, c)
    \/ \E r \in Repos, rec \in Records : InsertRecord(r, rec)
    \/ \E r \in Repos : RemoveRecord(r)
    \/ \E r \in Repos, k \in Slots : FsEvent(r, k)
    \/ CredSet
    \/ CredRemove
    \/ GatePass
    \/ ScanStart
    \/ \E r \in Repos : ScanVisit(r)
    \/ ScanEnd
    \/ \E r \in Repos, k \in Slots, w \in BOOLEAN : PollStart(r, k, w)
    \/ \E r \in Repos, k \in Slots : FirstCheck(r, k)
    \/ \E r \in Repos, k \in Slots, ok \in BOOLEAN : SyncReturns(r, k, ok)
    \/ \E r \in Repos, k \in Slots : SecondCheck(r, k)
    \/ \E r \in Repos, k \in Slots : TimerFires(r, k)
    \/ \E r \in Repos, k \in Slots : GitChange(r, k)

Spec == Init /\ [][Next]_vars

\* the supervisor's task is scheduled: its wait, scan and sleep all proceed
SupervisorFairness ==
    /\ WF_vars(GatePass)
    /\ WF_vars(ScanStart)
    /\ \A r \in Repos : WF_vars(ScanVisit(r))
    /\ WF_vars(ScanEnd)

SpecFair == Init /\ [][Next]_vars /\ SupervisorFairness

---------------------------------------------------------------------------
(* Specification of a fleet of two: both repositories tracked, filesystem  *)
(* events enabled, no new commits and no filesystem changes                *)

InitPair ==
    /\ FleetInit({Repos}) /\ EngineIdle /\ JitterIdle
    /\ ~disable_fsevents
    /\ \A r \in Repos : pool[r].last_commit_unix_secs = 0

NextPair ==
    \/ \E r \in Repos, s \in SyncStatus : SetStatus(r, s)
    \/ \E r \in Repos, rec \in Records :
          rec.last_commit_unix_secs = 0 /\ InsertRecord(r, rec)
    \/ \E r \in Repos : RemoveRecord(r)
    \/ CredSet
    \/ CredRemove
    \/ GatePass
    \/ ScanStart
    \/ \E r \in Repos : ScanVisit(r)
    \/ ScanEnd
    \/ \E r \in Repos, k \in Slots, w \in BOOLEAN : PollStart(r, k, w)
    \/ \E r \in Repos, k \in Slots : FirstCheck(r, k)
    \/ \E r \in Repos, k \in Slots, ok \in BOOLEAN : SyncReturns(r, k, ok)
    \/ \E r \in Repos, k \in Slots : SecondCheck(r, k)
    \/ \E r \in Repos, k \in Slots : TimerFires(r, k)

SpecPair == InitPair /\ [][NextPair]_vars

---------------------------------------------------------------------------
(* Specification of the jittered interval *)

InitJitter == FleetIdle /\ github = NoCred /\ EngineIdle /\ JitterInit

NextJitter ==
    \/ \E drawn \in jitter_range(jPoller.poll_interval_index) :
          JitteryInterval(drawn)
    \/ JIncreaseInterval
    \/ JResetInterval

SpecJitter == InitJitter /\ [][NextJitter]_vars

---------------------------------------------------------------------------
(* Specification of the credential engine *)

InitCred == FleetIdle /\ EngineInit /\ JitterIdle

NextCred ==
    \/ \E in \in Inputs(now) : EngineStartup(in)
    \/ \E in \in Inputs(now) : EngineCycle(TRUE, in)
    \/ \E in \in OneOf(Inputs(now)) : EngineCycle(FALSE, in)
    \/ EngineNoCreds
    \/ EngineWake
    \/ \E a \in Tokens, r \in Tokens, g \in Tokens : Login(a, r, g)
    \/ Tick

SpecCred == InitCred /\ [][NextCred]_vars

---------------------------------------------------------------------------
(* Specification of the engine's wait between cycles: both policies off *)

InitPoll ==
    /\ FleetIdle /\ JitterIdle
    /\ EngineInit
    /\ allow = [GithubOrgInstallation |-> FALSE, CognitoUserAuth |-> FALSE]
    /\ github = SomeCred

NextPoll ==
    \/ \E in \in Inputs(now) : EngineStartup(in)
    \/ \E in \in Inputs(now) : EngineCycle(TRUE, in)
    \/ \E in \in OneOf(Inputs(now)) : EngineCycle(FALSE, in)
    \/ TimeoutExpired
    \/ UpdateReceived
    \/ CredentialsChanged
    \/ PollTick

SpecPoll == InitPoll /\ [][NextPoll]_vars

---------------------------------------------------------------------------
(* Properties of the fleet *)

AllTasks == {<<r, k>> : r \in Repos, k \in Slots}

Task(p) == tasks[p[1]][p[2]]

\* C1: for every RepoRef at most one Monitor Loop is live, and the live loop
\* is the one whose handle the Fleet Task Table holds for that key.
C1_AtMostOneLiveLoop ==
    \A r \in Repos : /\ Cardinality(LiveLoops(r)) <= 1
                     /\ LiveLoops(r) \subseteq {handles[r]}

\* a loop is live while a scan is about to visit its occupied entry
C1_Witness ==
    \E r \in Repos : /\ supPc = "scan" /\ r \in toVisit
                     /\ handles[r] # 0 /\ Live(r, handles[r])
                     /\ tasks[r][handles[r]].pc = "waiting"

\* C2: for every repository at most one block_until_synced call is in flight.
C2_NoOverlappingSync ==
    \A r \in Repos :
        Cardinality({k \in Slots : tasks[r][k].pc = "syncing"}) <= 1

\* a sync is in flight while the scan reaches the repository's entry
C2_Witness ==
    \E r \in Repos, k \in Slots : /\ tasks[r][k].pc = "syncing"
                                  /\ supPc = "scan" /\ r \in toVisit

\* C3: a loop that reads a non-indexable status (step 1 or step 3) exits in
\* that step, leaving the backoff index as it was and not entering the wait;
\* and a scan that visits the record of an exited loop removes its entry.
C3_ExitOnNonIndexable ==
    [][\A r \in Repos :
        /\ \A k \in Slots :
             ( /\ tasks[r][k].pc \in {"check1", "check2"}
               /\ tasks'[r][k].pc # tasks[r][k].pc
               /\ pool[r].present /\ ~indexable(pool[r].sync_status) )
             => /\ tasks'[r][k].pc = "done"
                /\ tasks'[r][k].poll_interval_index
                     = tasks[r][k].poll_interval_index
                /\ tasks'[r][k].adj = "none"
        /\ ( /\ supPc = "scan" /\ r \in toVisit /\ r \notin toVisit'
             /\ pool[r].present
             /\ handles[r] # 0 /\ tasks[r][handles[r]].pc = "done" )
           => handles'[r] = 0
      ]_vars

\* a loop has exited on a non-indexable status and its entry awaits the scan
C3_Witness ==
    \E r \in Repos :
        /\ handles[r] # 0
        /\ tasks[r][handles[r]].pc = "done"
        /\ tasks[r][handles[r]].exit = "not_indexable"
        /\ tasks[r][handles[r]].poll_interval_index > 0
        /\ pool[r].present /\ pool[r].sync_status = "Removed"

\* C4 as stated: when a scan that began after the status became non-indexable
\* ends, and the status stayed so, no Monitor Loop of the record is live.
C4_NoLiveLoopPastScan ==
    [][(supPc = "scan" /\ supPc' = "idle")
         => \A r \in badAtStart : LiveLoops(r) = {}]_vars

\* C4 as amended: no Monitor Loop is started for a record while its status is
\* non-indexable; a loop that was live before is not ended by the scan.
C4_NoSpawnWhileNonIndexable ==
    [][\A r \in Repos :
         /\ (pool[r].present /\ ~indexable(pool[r].sync_status))
              => LiveLoops(r)' \subseteq LiveLoops(r)
         /\ supPc' # supPc \/ toVisit' # toVisit
              => LiveLoops(r) \subseteq LiveLoops(r)'
      ]_vars

\* a scan has passed a non-indexable record and left its entry vacant
C4_Witness ==
    /\ supPc = "scan" /\ toVisit = {}
    /\ \E r \in badAtStart : handles[r] = 0 /\ LiveLoops(r) = {}

\* C5: an iteration that passes step 3 adjusts the backoff once, by
\* increase_interval exactly when the commit time read before the sync equals
\* the one read after it and the status read after it is Done, and by
\* reset_interval in every other case.
C5_AdjustOnce ==
    [][\A r \in Repos, k \in Slots :
        (tasks[r][k].pc = "check2" /\ tasks'[r][k].pc = "waiting")
        => LET t == tasks[r][k]
               unchanged == /\ t.last_updated = pool[r].last_commit_unix_secs
                            /\ pool[r].sync_status = "Done"
           IN  /\ unchanged =>
                    /\ tasks'[r][k].adj = "increase"
                    /\ tasks'[r][k].poll_interval_index
                         = Min(t.poll_interval_index + 1, LastIndex)
               /\ ~unchanged =>
                    /\ tasks'[r][k].adj = "reset"
                    /\ tasks'[r][k].poll_interval_index
                         = t.minimum_interval_index
      ]_vars

\* a loop waits after an increase that followed earlier increases
C5_Witness ==
    \E p \in AllTasks : /\ Task(p).pc = "waiting"
                        /\ Task(p).adj = "increase"
                        /\ Task(p).poll_interval_index = 2

\* C6: the backoff index never exceeds LastIndex (4), and increase_interval
\* at LastIndex leaves it there.
C6_IndexBounded ==
    [][\A r \in Repos, k \in Slots :
        /\ tasks'[r][k].poll_interval_index <= 4
        /\ ( /\ tasks[r][k].pc = "check2"
             /\ tasks'[r][k].adj = "increase"
             /\ tasks[r][k].poll_interval_index = 4 )
           => tasks'[r][k].poll_interval_index = 4
      ]_vars

\* a poller without a watch has climbed to the last entry by increases
C6_Witness ==
    \E p \in AllTasks : /\ Task(p).adj = "increase"
                        /\ ~Task(p).debouncer
                        /\ Task(p).poll_interval_index = 4

\* C7: right after reset_interval the backoff index is the poller's floor:
\* 0 without a filesystem watch, LastIndex (4) with a live one.
C7_ResetToFloor ==
    \A p \in AllTasks :
        Task(p).adj = "reset"
        => Task(p).poll_interval_index = IF Task(p).debouncer THEN 4 ELSE 0

\* a poller with a live watch has just been reset
C7_Witness ==
    \E p \in AllTasks : Task(p).adj = "reset" /\ Task(p).debouncer

\* C9: a poller without an established watch is never woken by git_change:
\* each of its wake-ups from the wait is the timer's.
C9_NoChangeWakeWithoutWatch ==
    \A p \in AllTasks : ~Task(p).debouncer => Task(p).wake # "change"

\* a poller without a watch has been woken from its wait
C9_Witness ==
    \E p \in AllTasks : /\ ~Task(p).debouncer
                        /\ Task(p).pc = "check1"
                        /\ Task(p).wake = "timer"

---------------------------------------------------------------------------
(* Properties of the jittered interval *)

\* C8: for every backoff level with base interval b and every draw,
\* jittery_interval returns d with b <= d < b + 30 + b/2, and the jitter it
\* added lies in [10, 30 + b/2).
C8_JitterBounds ==
    jResult.called =>
        LET b == POLL_INTERVAL_MINUTE[jPoller.poll_interval_index + 1]
        IN  /\ b <= jResult.duration
            /\ jResult.duration < b + 30 + b \div 2
            /\ jResult.duration = b + jResult.jitter
            /\ 10 <= jResult.jitter
            /\ jResult.jitter < 30 + b \div 2

\* the largest jitter on the longest interval has been drawn
C8_Witness ==
    /\ jResult.called
    /\ jPoller.poll_interval_index = 4
    /\ jResult.duration = 1800 + 929

---------------------------------------------------------------------------
(* Properties of the credential engine *)

\* C10: when the access token verifies and carries an expiry claim, a cycle
\* attempts no rotation if the expiry is 601 seconds after the current time
\* and attempts one if it is 599 seconds after it.
C10_RotationThreshold ==
    cycle.verify = "object_exp" =>
        /\ cycle.exp = cycle.at + 601 => ~cycle.rotation_attempted
        /\ cycle.exp = cycle.at + 599 => cycle.rotation_attempted

\* a cycle has rotated a token that had 599 seconds left and written the bundle
C10_Witness ==
    /\ cycle.verify = "object_exp"
    /\ cycle.exp = cycle.at + 599
    /\ cycle.rotation_attempted
    /\ cycle.bundle_written

\* a step in which sync_github_status calls update_credentials
UpdateStep ==
    \/ credPc = "startup" /\ credPc' = "top"
    \/ credPc = "top" /\ credPc' = "wait"

\* C11: a cycle whose refresh response cannot be decoded removes the held
\* credentials once and persists once, writes no bundle, and leaves the slot
\* and the persisted copy empty; while the slot is empty the loop only waits:
\* it calls update_credentials no more, so it makes no refresh request.
C11_RemoveOnceNoRetry ==
    [][/\ (UpdateStep /\ cycle'.refresh = "json_err")
          => /\ cycle'.removes = 1 /\ cycle'.stores = 1
             /\ ~cycle'.bundle_written /\ cycle'.validated = "none"
             /\ github' = NoCred /\ stored'.github = NoCred
       /\ (github = NoCred /\ credPc = "top")
          => /\ credPc' = "top"
             /\ cycle' = cycle
       /\ (github = NoCred /\ UpdateStep) => ~cycle'.rotation_attempted
      ]_vars

\* the engine is back at the top of its loop with no credentials after an
\* undecodable refresh response
C11_Witness ==
    /\ cycle.refresh = "json_err" /\ cycle.removes = 1
    /\ github = NoCred /\ credPc = "top"

C13_WatchFailureNotFatal ==
    \A p \in AllTasks : Task(p).exit # "watch_failed"

\* C14 as stated: a loop that got its Poller has ended only because it read a
\* non-indexable status or because its sync failed.
C14_ExitOnlyNonIndexableOrSyncError ==
    \A p \in AllTasks :
        (Task(p).pc = "done" /\ Task(p).exit \notin {"start_no_record", "watch_failed"})
            => Task(p).exit \in {"not_indexable", "sync_error"}

\* C14: a loop that got its Poller ends only in a status read (step 1 or 3)
\* that finds the record gone from the pool or its status non-indexable, or
\* when block_until_synced returns an error; the wait of step 5 always leads
\* back to step 1, whichever of the timer and the change signal ends it.
C14_ExitOnlyAtReadOrSyncError ==
    [][\A p \in AllTasks :
          LET r == p[1]
              t == Task(p)
              u == Task(p)'
          IN  /\ (t.pc \in {"check1", "syncing", "check2", "waiting"} /\ u.pc = "done")
                    => \/ /\ t.pc \in {"check1", "check2"}
                          /\ ~pool[r].present
                          /\ u.exit = "no_record"
                       \/ /\ t.pc \in {"check1", "check2"}
                          /\ pool[r].present /\ ~indexable(pool[r].sync_status)
                          /\ u.exit = "not_indexable"
                       \/ /\ t.pc = "syncing"
                          /\ u.exit = "sync_error"
              /\ (t.pc = "waiting" /\ u.pc # "waiting") => u.pc = "check1"
      ]_vars

\* a loop has ended at its second status read because the record was gone
\* from the pool
C14_Witness ==
    \E p \in AllTasks :
        /\ Task(p).pc = "done" /\ Task(p).exit = "no_record"
        /\ ~pool[p[1]].present
        /\ Task(p).poll_interval_index > 0

\* C15: while the Supervisor is in its startup wait it has scanned nothing and
\* spawned nothing; it leaves the wait only in a step taken while the slot
\* holds a credential; and it never returns to the wait, so a later removal of
\* the credential does not stop the scans.
C15_GateOnlyAtStartup ==
    [][/\ supPc = "gate"
          => /\ toVisit = {} /\ \A r \in Repos : handles[r] = 0
             /\ \A p \in AllTasks : Task(p).pc = "none"
             /\ (supPc' # "gate" => github # NoCred /\ supPc' = "idle")
             /\ handles' = handles /\ tasks' = tasks
       /\ supPc # "gate" => supPc' # "gate"
       /\ (supPc = "idle" /\ github = NoCred) => ENABLED ScanStart
      ]_vars

\* a scan is under way, and has just spawned a loop, while the credential
\* slot is empty
C15_Witness ==
    /\ supPc = "scan" /\ github = NoCred
    /\ \E r \in Repos : /\ r \notin toVisit
                        /\ handles[r] # 0
                        /\ tasks[r][handles[r]].pc = "start"

\* C16: in a cycle whose token verification returned an error, or claims that
\* are not an object, the rotation is attempted; no expiry is read.
C16_RotateOnVerifyFailure ==
    cycle.verify \in {"other", "err"}
        => /\ cycle.rotation_attempted
           /\ cycle.refresh # "none"
           /\ cycle.exp = 0

\* the verifier returned an error and the refresh request was made
C16_Witness ==
    /\ cycle.verify = "err"
    /\ cycle.rotation_attempted /\ cycle.refresh = "ok"

\* C17: a cycle whose rotation succeeds writes and persists the new bundle and
\* validates the identity before it ends; when the validation errors, the
\* credentials are removed and the removal persisted, so the cycle ends with
\* no credential held or persisted; otherwise it ends holding the persisted
\* bundle.
C17_RotationThenValidation ==
    [][(UpdateStep /\ cycle'.bundle_written)
          => /\ cycle'.refresh = "ok"
             /\ cycle'.stores >= 1
             /\ cycle'.validated \in {"user", "no_user", "err"}
             /\ cycle'.validated = "err"
                   => /\ cycle'.removes = 1 /\ cycle'.stores = 2
                      /\ github' = NoCred /\ stored'.github = NoCred
             /\ cycle'.validated # "err"
                   => /\ cycle'.removes = 0
                      /\ github'.auth = "OAuth"
                      /\ stored'.github = github'
      ]_vars

\* a cycle rotated the token, the validation errored, and the credentials are
\* gone from the slot and from the persisted copy
C17_Witness ==
    /\ cycle.bundle_written /\ cycle.validated = "err"
    /\ cycle.removes = 1 /\ cycle.stores = 2
    /\ github = NoCred /\ stored.github = NoCred
    /\ credPc = "wait"

\* C18 as stated: with the installation flag enabled a cycle requests a fresh
\* token exactly when it held no credential with an expiry, or one whose
\* expiry was not more than ten minutes after the time of the cycle; and after
\* a failed request the loop goes on to a next cycle that retries it: the
\* engine is not left at the top of its loop with only the liveness wait to do.
C18_RequestedIffDueAndRetried ==
    /\ (cycle.ran /\ allow.GithubOrgInstallation)
          => (cycle.installation_requested
                 <=> (~cycle.held.some \/ cycle.held.at <= cycle.at + 10 * 60))
    /\ (/\ allow.GithubOrgInstallation /\ ~allow.CognitoUserAuth
        /\ cycle.installation = "err"
        /\ credPc = "top")
          => github # NoCred

\* C19 as stated: a processing cycle never begins less than POLL_PERIOD after
\* the one before it began.
C19_CyclesPollPeriodApart ==
    [][(credPc = "top" /\ credPc' = "wait" /\ cycle_at # 0)
          => now - cycle_at >= POLL_PERIOD]_vars

\* C20: a step in which a loop of one repository ends (sync error, record
\* gone or non-indexable, no Poller), or in which the credential slot changes,
\* leaves every other repository's tasks (liveness, backoff indices) and
\* Fleet Task Table entry as they were; so does it the pool.
C20_FailureIsLocal ==
    [][/\ \A r \in Repos :
             (\E k \in Slots : Live(r, k) /\ tasks'[r][k].pc = "done")
                => /\ \A q \in Repos \ {r} : /\ tasks'[q] = tasks[q]
                                             /\ handles'[q] = handles[q]
                   /\ handles' = handles
                   /\ pool' = pool
       /\ github' # github => /\ tasks' = tasks
                              /\ handles' = handles
                              /\ pool' = pool
      ]_vars

\* one repository's loop has ended on a sync error while the other's is still
\* waiting at the backoff index it had reached
C20_Witness ==
    \E r \in Repos, q \in Repos :
        /\ r # q
        /\ handles[r] # 0 /\ tasks[r][handles[r]].exit = "sync_error"
        /\ handles[q] # 0 /\ tasks[q][handles[q]].pc = "waiting"
        /\ tasks[q][handles[q]].poll_interval_index > 0

\* C21 as stated: an entry of the Fleet Task Table whose loop has finished is
\* eventually removed, whatever has become of the repository's record; and no
\* step removes an entry whose loop is still live.
C21_FinishedEntryReaped ==
    /\ \A r \in Repos :
          (handles[r] # 0 /\ is_finished(r, handles[r])) ~> (handles[r] = 0)
    /\ [][\A r \in Repos :
             (handles[r] # 0 /\ handles'[r] = 0) => is_finished(r, handles[r])]_vars

\* C21: an entry of the Fleet Task Table whose loop has finished is removed
\* by a later scan unless the repository's record is missing from the pool
\* when the scan comes by: scan_async visits only the records in the pool, so
\* the entry of a repository without a record stays. No step removes an entry
\* whose loop is still live.
C21_FinishedEntryReapedIfRecordPresent ==
    /\ \A r \in Repos :
          (handles[r] # 0 /\ is_finished(r, handles[r]))
              ~> (handles[r] = 0 \/ ~pool[r].present)
    /\ [][\A r \in Repos :
             (handles[r] # 0 /\ handles'[r] = 0)
                => /\ is_finished(r, handles[r])
                   /\ pool[r].present
                   /\ supPc = "scan" /\ r \in toVisit]_vars

\* a scan has passed the key of a finished loop whose record is gone, and the
\* entry is still in the table
C21_Witness ==
    \E r \in Repos :
        /\ handles[r] # 0 /\ is_finished(r, handles[r])
        /\ ~pool[r].present
        /\ supPc = "scan" /\ r \notin toVisit
        /\ tasks[r][handles[r]].exit = "no_record"

\* C22: a call of update_credentials with the installation flag disabled makes
\* no installation-token request; with the user-auth flag disabled, or with no
\* OAuth bundle in the slot, it verifies no token, attempts no rotation,
\* validates no identity, and removes no credential; with both flags disabled
\* it changes nothing.
C22_PoliciesGatedByFlags ==
    [][UpdateStep
          => /\ ~allow.GithubOrgInstallation
                   => /\ ~cycle'.installation_requested
                      /\ cycle'.installation = "none"
             /\ (~allow.CognitoUserAuth \/ github.auth # "OAuth")
                   => /\ cycle'.verify = "none"
                      /\ ~cycle'.rotation_attempted /\ cycle'.refresh = "none"
                      /\ cycle'.validated = "none"
                      /\ cycle'.removes = 0 /\ cycle'.stores = 0
             /\ (~allow.GithubOrgInstallation /\ ~allow.CognitoUserAuth)
                   => /\ github' = github /\ stored' = stored /\ user' = user
      ]_vars

\* an OAuth bundle is held, the user-auth flag is off, and a cycle has run
\* without touching it
C22_Witness ==
    /\ ~allow.CognitoUserAuth /\ allow.GithubOrgInstallation
    /\ github.auth = "OAuth"
    /\ cycle.ran /\ cycle.verify = "none" /\ cycle.installation = "err"
    /\ credPc = "wait"

\* C23 as stated: a cycle whose refresh request fails, or whose response body
\* cannot be read, leaves the credential slot and the persisted credentials
\* as they were.
C23_TransportFailureOnlyLogged ==
    [][(UpdateStep /\ cycle'.refresh \in {"get_err", "body_err"})
          => /\ github' = github
             /\ stored' = stored]_vars

\* C23: a cycle whose refresh request itself fails leaves the slot, the
\* persisted credentials and the user as they were, removes and persists
\* nothing, and the bundle still held lets the next cycle try again; a cycle
\* whose response body cannot be read removes the credentials and persists
\* the removal, as for an undecodable body.
C23_RequestFailureOnlyLogged ==
    [][/\ (UpdateStep /\ cycle'.refresh = "get_err")
          => /\ github' = github /\ stored' = stored /\ user' = user
             /\ github'.auth = "OAuth"
             /\ cycle'.removes = 0 /\ cycle'.stores = 0
             /\ cycle'.validated = "none" /\ ~cycle'.bundle_written
       /\ (UpdateStep /\ cycle'.refresh = "body_err")
          => /\ github.auth = "OAuth"
             /\ github' = NoCred /\ stored'.github = NoCred
             /\ cycle'.removes = 1 /\ cycle'.stores = 1
             /\ cycle'.validated = "none" /\ ~cycle'.bundle_written
      ]_vars

\* after a failed refresh request the engine is waiting for its next cycle
\* with the bundle it had
C23_Witness ==
    /\ cycle.refresh = "get_err" /\ cycle.removes = 0
    /\ github.auth = "OAuth" /\ stored.github = github
    /\ credPc = "wait"

\* C24: every Poller has minimum_interval_index <= poll_interval_index <= N-1,
\* and a Poller with a filesystem watch has both indices at N-1, whatever
\* adjustments it has been through.
C24_IndexBetweenFloorAndCeiling ==
    \A p \in AllTasks :
        LET t == Task(p)
        IN  t.pc \in {"check1", "syncing", "check2", "waiting"}
               => /\ 0 <= t.minimum_interval_index
                  /\ t.minimum_interval_index <= t.poll_interval_index
                  /\ t.poll_interval_index <= LastIndex
                  /\ t.debouncer => /\ t.poll_interval_index = LastIndex
                                    /\ t.minimum_interval_index = LastIndex
                                    /\ interval(t.poll_interval_index) = 30 * 60

\* a watched poller has just been through reset_interval and sits at N-1
C24_Witness ==
    \E p \in AllTasks :
        /\ Task(p).debouncer /\ Task(p).pc = "waiting"
        /\ Task(p).adj = "reset"
        /\ Task(p).poll_interval_index = LastIndex

\* C25: a cycle in which the OAuth policy runs on a held bundle and does not
\* return early (claims without "exp", a failed refresh request, an unreadable
\* or undecodable refresh body) validates the identity, with or without a
\* rotation; a validation error empties the slot and persists the removal; any
\* other validation result leaves an OAuth bundle in the slot.
C25_ValidationEveryFullCycle ==
    [][(/\ UpdateStep
        /\ cycle'.verify \in {"object_exp", "other", "err"}
        /\ cycle'.refresh \in {"none", "ok"})
          => /\ cycle'.validated \in {"user", "no_user", "err"}
             /\ cycle'.validated = "err"
                   => /\ github' = NoCred /\ stored'.github = NoCred
                      /\ cycle'.removes = 1 /\ cycle'.stores >= 1
             /\ cycle'.validated \in {"user", "no_user"}
                   => /\ github'.auth = "OAuth"
                      /\ cycle'.removes = 0
                      /\ ~cycle'.rotation_attempted => github' = github
      ]_vars

\* a cycle without rotation validated the identity, the validation errored,
\* and the credentials are gone
C25_Witness ==
    /\ cycle.verify = "object_exp" /\ ~cycle.rotation_attempted
    /\ cycle.validated = "err" /\ cycle.removes = 1 /\ cycle.stores = 1
    /\ github = NoCred /\ stored.github = NoCred

\* C26: a cycle whose token verifies with claims that carry no "exp" ends
\* there: no rotation, no validation, no removal, no persist, and the slot,
\* the persisted credentials and the user are as before.
C26_NoExpiryEndsCycle ==
    [][(UpdateStep /\ cycle'.verify = "object_no_exp")
          => /\ ~cycle'.rotation_attempted /\ cycle'.refresh = "none"
             /\ ~cycle'.bundle_written
             /\ cycle'.validated = "none"
             /\ cycle'.removes = 0 /\ cycle'.stores = 0
             /\ github' = github /\ stored' = stored /\ user' = user
      ]_vars

\* a cycle ended on claims without "exp" and the bundle is still held
C26_Witness ==
    /\ cycle.verify = "object_no_exp"
    /\ github.auth = "OAuth"
    /\ credPc = "wait"

\* C27: the bundle a successful rotation writes has the refresh token and the
\* GitHub access token of the bundle the cycle read from the slot; when the
\* cycle ends with the bundle held, the slot and the persisted copy hold that
\* one bundle, whole.
C27_RotationKeepsOtherTokens ==
    [][(UpdateStep /\ cycle'.bundle_written)
          => /\ github.auth = "OAuth"
             /\ cycle'.only_access_token
             /\ cycle'.validated # "err"
                   => /\ same_but_access_token(github', github)
                      /\ stored'.github = github'
             /\ cycle'.validated = "err" => github' = NoCred
      ]_vars

\* a rotation has replaced the access token of a bundle whose three tokens
\* differed, and the other two are as they were
C27_Witness ==
    /\ cycle.bundle_written /\ cycle.validated = "user"
    /\ github.auth = "OAuth"
    /\ github.access_token # github.refresh_token
    /\ github.refresh_token # github.github_access_token
    /\ stored.github = github
    /\ credPc = "wait"

\* C28: when git_change ends the wait of a watched poller, at least one signal
\* was queued and none is left, so the signals queued before the wait cause
\* one change-driven pass, however many they are; a signal queued while the
\* loop reads the status or syncs stays queued, as it does when the timer ends
\* the wait; and a watched poller that waits with a signal queued can be
\* woken by git_change.
C28_ChangeSignalsCoalesced ==
    [][\A p \in AllTasks :
          LET t == Task(p)
              u == Task(p)'
          IN  /\ (t.pc = "waiting" /\ u.pc = "check1" /\ u.wake = "change")
                    => /\ t.debouncer
                       /\ t.git_events >= 1
                       /\ u.git_events = 0
              /\ (t.pc = "waiting" /\ u.pc = "check1" /\ u.wake = "timer")
                    => u.git_events = t.git_events
              /\ (t.pc \in {"check1", "syncing", "check2"} /\ u.pc # "done")
                    => u.git_events >= t.git_events
              /\ (t.pc = "waiting" /\ t.debouncer /\ t.git_events >= 1)
                    => ENABLED GitChange(p[1], p[2])
      ]_vars

\* git_change has just ended a wait and the queue is empty
C28_Witness ==
    \E p \in AllTasks :
        /\ Task(p).pc = "check1" /\ Task(p).wake = "change"
        /\ Task(p).debouncer /\ Task(p).git_events = 0

=============================================================================
